---- MODULE Spec2Model ----
(***************************************************************************)
(* Model of create_recordio_coco.py: the conversion of a COCO-style        *)
(* annotation JSON plus a directory of image files into an indexed         *)
(* RecordIO container (coco.rec / coco.idx).                               *)
(*                                                                         *)
(* Python dicts are functions with a finite DOMAIN, Python lists are       *)
(* sequences (1-based here, 0-based in the source: list element j of the   *)
(* source is element j+1 of the model).  The script is one straight-line   *)
(* process; pc is its position.  The environment (the annotation file, the *)
(* image files) is chosen in Init or at the step that touches it.          *)
(* mx.recordio.IRHeader / pack / MXIndexedRecordIO are library code: pack  *)
(* is kept as the pair of its two arguments, the container as the list of  *)
(* write_idx calls it received.                                            *)
(***************************************************************************)
EXTENDS Naturals, Sequences, FiniteSets

\* ---------------------------------------------------------------- bounds
MaxImages == 2
MaxAnns == 2
MaxCats == 2

\* ------------------------------------------------------- input universes
TopKeys == {"images", "annotations", "categories"}

\* Image entries of the JSON (a list may hold the same entry, and so the
\* same id, more than once).
ImageUniverse ==
    { [id |-> 1, file_name |-> "a.jpg", width |-> 10, height |-> 20],
      [id |-> 2, file_name |-> "b.jpg", width |-> 30, height |-> 40] }

\* Annotation entries without their id (the id is the list position).
AnnShapes ==
    { [image_id |-> 1, category_id |-> 5, bbox |-> <<1, 2, 3, 4>>],
      [image_id |-> 1, category_id |-> 7, bbox |-> <<5, 6, 7, 8>>],
      [image_id |-> 2, category_id |-> 7, bbox |-> <<9, 10, 11, 12>>] }

CatUniverse == { [id |-> 5], [id |-> 7] }

ListsOf(U, n) == UNION { [1..k -> U] : k \in 0..n }

ImageLists == ListsOf(ImageUniverse, MaxImages)

AnnLists ==
    { [j \in 1..Len(t) |->
          [id |-> j, image_id |-> t[j].image_id,
           category_id |-> t[j].category_id, bbox |-> t[j].bbox]] :
      t \in ListsOf(AnnShapes, MaxAnns) }

CatLists == ListsOf(CatUniverse, MaxCats)

\* A parsed JSON object: any of the three top-level keys may be absent.
MkDataset(K, im, an, ca) ==
    [k \in K |-> IF k = "images" THEN im
                 ELSE IF k = "annotations" THEN an ELSE ca]

\* The bytes of an image file, by name.
FileContent(name) == <<"bytes of", name>>

NoImg == [id |-> 0, file_name |-> "", width |-> 0, height |-> 0]

\* ------------------------------------------------------------- variables
VARIABLES
    shuffle,      \* line 11-13: a 4th command-line argument is present
    inFile,       \* the annotation file: [status, content]
    dataset,      \* line 20: the parsed JSON
    anns,         \* line 22/28: annotation id -> annotation
    imgs,         \* line 22/32: image id -> image
    cats,         \* line 22/36: category id -> label
    imgToAnns,    \* line 23/27: image id -> list of annotations (defaultdict)
    record,       \* line 40: the container: [opened, entries]
    images,       \* line 43: the list the loop enumerates
    i,            \* line 46: the index enumerate() yields next / yielded last
    img,          \* line 46
    openFiles,    \* number of image files currently open (fin, line 48)
    openCalls,    \* number of open() calls made on image files so far
    imgData,      \* line 49
    finalData,    \* line 66
    exc,          \* the exception propagating out of the with body, if any
    err,          \* the unhandled exception that ended the run
    pc

vars == <<shuffle, inFile, dataset, anns, imgs, cats, imgToAnns, record,
          images, i, img, openFiles, openCalls, imgData, finalData, exc,
          err, pc>>

\* ----------------------------------------------------- dicts and helpers
EmptyDict == <<>>

\* d[k] = v on a dict
Put(d, k, v) == [x \in (DOMAIN d) \cup {k} |-> IF x = k THEN v ELSE d[x]]

\* the value a defaultdict(list) yields for key k
DefaultGet(d, k) == IF k \in DOMAIN d THEN d[k] ELSE <<>>

\* the dict a defaultdict(list) is after key k was read
DefaultTouch(d, k) == IF k \in DOMAIN d THEN d ELSE Put(d, k, <<>>)

\* line 27: imgToAnns[ann['image_id']].append(ann)
AppendAnnPrepend(group, ann) == <<ann>> \o group
AppendAnn(group, ann) == Append(group, ann)

\* lines 25-28, the grouping loop; k is the 0-based position in annList
RECURSIVE GroupLoop(_, _, _)
GroupLoop(annList, k, acc) ==
    IF k >= Len(annList) THEN acc
    ELSE LET ann == annList[k + 1] IN
         GroupLoop(annList, k + 1,
                   Put(acc, ann.image_id,
                       AppendAnn(DefaultGet(acc, ann.image_id), ann)))

\* lines 26-28, the anns dict
RECURSIVE AnnsLoop(_, _, _)
AnnsLoop(annList, k, acc) ==
    IF k >= Len(annList) THEN acc
    ELSE AnnsLoop(annList, k + 1, Put(acc, annList[k + 1].id, annList[k + 1]))

\* lines 30-32
RECURSIVE ImgsLoop(_, _, _)
ImgsLoop(imgList, k, acc) ==
    IF k >= Len(imgList) THEN acc
    ELSE ImgsLoop(imgList, k + 1, Put(acc, imgList[k + 1].id, imgList[k + 1]))

\* line 36: the label given to the category at 0-based position k
CatLabelZeroBased(k) == k
CatLabel(k) == k + 1

\* lines 34-36; k is the 0-based position enumerate() yields
RECURSIVE CatsLoop(_, _, _)
CatsLoop(catList, k, acc) ==
    IF k >= Len(catList) THEN acc
    ELSE CatsLoop(catList, k + 1, Put(acc, catList[k + 1].id, CatLabel(k)))

\* the value of dataset[key] under the guard "if key in dataset"
Guarded(ds, key) == IF key \in DOMAIN ds THEN ds[key] ELSE <<>>

\* line 45: the orders random.shuffle can leave a list in
Permutations(list) ==
    LET n == Len(list) IN
    { [j \in 1..n |-> list[p[j]]] :
        p \in { q \in [1..n -> 1..n] : \A a, b \in 1..n : q[a] = q[b] => a = b } }

\* lines 44-45
ShuffledAlways(list, flag) == Permutations(list)
Shuffled(list, flag) == IF flag THEN Permutations(list) ELSE {list}

\* lines 57-59: the lookup cats[ann["category_id"]] raises KeyError
LookupFailsWrongKey(group, catDict) ==
    \E j \in 1..Len(group) : group[j].image_id \notin DOMAIN catDict
LookupFails(group, catDict) ==
    \E j \in 1..Len(group) : group[j].category_id \notin DOMAIN catDict

\* lines 56-59: labels
Labels(group, catDict) == [j \in 1..Len(group) |-> catDict[group[j].category_id]]

\* lines 55-58: bboxes
Bboxes(group) == [j \in 1..Len(group) |-> group[j].bbox]

\* lines 62-64: mergedBboxes
RECURSIVE MergeBboxes(_)
MergeBboxes(bboxes) ==
    IF bboxes = <<>> THEN <<>>
    ELSE Head(bboxes) \o MergeBboxes(Tail(bboxes))

\* line 66
FinalData(im, labels, mergedBboxes) ==
    <<im.id, im.width, im.height>> \o labels \o mergedBboxes

\* line 68: mx.recordio.IRHeader(flag, label, id, id2)
IRHeader(flag, label, id, id2) ==
    [flag |-> flag, label |-> label, id |-> id, id2 |-> id2]

\* line 68: the header of the record built in iteration k
Header(data, k) == IRHeader(0, data, k, 0)

\* line 69: mx.recordio.pack(header, s)
pack(header, data) == [header |-> header, data |-> data]

\* line 70: record.write_idx(key, buf)
write_idx(rec, key, buf) ==
    [rec EXCEPT !.entries = Append(@, [key |-> key, s |-> buf])]

\* line 20: json.load returns a value (the file exists and is well-formed)
LoadOkLenient(status) == status # "missing"
LoadOk(status) == status = "ok"

\* line 46: enumerate(images) has an element left after k iterations
LoopHasNextOffByOne(k, list) == k + 1 < Len(list)
LoopHasNext(k, list) == k < Len(list)

\* no try/except anywhere in the script: where control goes when exception
\* e is raised
UnhandledSkipsImage(e) ==
    IF e \in {"OSError:open", "OSError:read"} THEN "build" ELSE "aborted"
Unhandled(e) == "aborted"

\* ------------------------------------------------------------------ Init
Init ==
    /\ shuffle \in BOOLEAN
    /\ \/ \E K \in SUBSET TopKeys :
            \E im \in (IF "images" \in K THEN ImageLists ELSE {<<>>}),
               an \in (IF "annotations" \in K THEN AnnLists ELSE {<<>>}),
               ca \in (IF "categories" \in K THEN CatLists ELSE {<<>>}) :
              inFile = [status |-> "ok", content |-> MkDataset(K, im, an, ca)]
       \/ \E st \in {"missing", "malformed"} :
            inFile = [status |-> st, content |-> EmptyDict]
    /\ dataset = EmptyDict
    /\ anns = EmptyDict
    /\ imgs = EmptyDict
    /\ cats = EmptyDict
    /\ imgToAnns = EmptyDict
    /\ record = [opened |-> FALSE, entries |-> <<>>]
    /\ images = <<>>
    /\ i = 0
    /\ img = NoImg
    /\ openFiles = 0
    /\ openCalls = 0
    /\ imgData = <<>>
    /\ finalData = <<>>
    /\ exc = "none"
    /\ err = "none"
    /\ pc = "load"

\* --------------------------------------------------------------- actions
\* line 20: dataset = json.load(open(in_path, 'r'))
LoadJson ==
    /\ pc = "load"
    /\ IF LoadOk(inFile.status)
       THEN /\ dataset' = inFile.content
            /\ pc' = "index"
            /\ err' = err
       ELSE /\ dataset' = dataset
            /\ err' = IF inFile.status = "missing"
                      THEN "FileNotFoundError" ELSE "JSONDecodeError"
            /\ pc' = Unhandled(err')
    /\ UNCHANGED <<shuffle, inFile, anns, imgs, cats, imgToAnns, record,
                   images, i, img, openFiles, openCalls, imgData, finalData,
                   exc>>

\* lines 22-36: the three guarded index-building loops
BuildIndexes ==
    /\ pc = "index"
    /\ imgToAnns' = GroupLoop(Guarded(dataset, "annotations"), 0, EmptyDict)
    /\ anns' = AnnsLoop(Guarded(dataset, "annotations"), 0, EmptyDict)
    /\ imgs' = ImgsLoop(Guarded(dataset, "images"), 0, EmptyDict)
    /\ cats' = CatsLoop(Guarded(dataset, "categories"), 0, EmptyDict)
    /\ pc' = "open_record"
    /\ UNCHANGED <<shuffle, inFile, dataset, record, images, i, img,
                   openFiles, openCalls, imgData, finalData, exc, err>>

\* lines 38-40: record = mx.recordio.MXIndexedRecordIO(fname_idx, fname_rec, 'w')
OpenRecord ==
    /\ pc = "open_record"
    /\ record' = [opened |-> TRUE, entries |-> <<>>]
    /\ pc' = "take_images"
    /\ UNCHANGED <<shuffle, inFile, dataset, anns, imgs, cats, imgToAnns,
                   images, i, img, openFiles, openCalls, imgData, finalData,
                   exc, err>>

\* lines 43-45: images = dataset['images'], shuffled in place when asked
TakeImages ==
    /\ pc = "take_images"
    /\ IF "images" \in DOMAIN dataset
       THEN /\ \E order \in Shuffled(dataset["images"], shuffle) :
                 /\ images' = order
                 /\ dataset' = [dataset EXCEPT !["images"] = order]
            /\ pc' = "loop"
            /\ err' = err
       ELSE /\ images' = images
            /\ dataset' = dataset
            /\ pc' = Unhandled("KeyError:images")
            /\ err' = "KeyError:images"
    /\ UNCHANGED <<shuffle, inFile, anns, imgs, cats, imgToAnns, record, i,
                   img, openFiles, openCalls, imgData, finalData, exc>>

\* lines 46-48: the next image is taken and its file is opened
OpenImage ==
    /\ pc = "loop"
    /\ LoopHasNext(i, images)
    /\ img' = images[i + 1]
    /\ openCalls' = openCalls + 1
    /\ \E opened \in BOOLEAN :
         IF opened
         THEN /\ openFiles' = openFiles + 1
              /\ pc' = "read"
              /\ err' = err
         ELSE /\ openFiles' = openFiles
              /\ pc' = Unhandled("OSError:open")
              /\ err' = "OSError:open"
    /\ UNCHANGED <<shuffle, inFile, dataset, anns, imgs, cats, imgToAnns,
                   record, images, i, imgData, finalData, exc>>

\* line 49: imgData = fin.read()
ReadImage ==
    /\ pc = "read"
    /\ \E readable \in BOOLEAN :
         IF readable
         THEN /\ imgData' = FileContent(img.file_name)
              /\ exc' = exc
         ELSE /\ imgData' = imgData
              /\ exc' = "OSError:read"
    /\ pc' = "with_exit"
    /\ UNCHANGED <<shuffle, inFile, dataset, anns, imgs, cats, imgToAnns,
                   record, images, i, img, openFiles, openCalls, finalData,
                   err>>

\* line 48: what leaving the with block does to the number of open files
CloseOnExitLeak(n, pending) == IF pending = "none" THEN n - 1 ELSE n
CloseOnExit(n, pending) == n - 1

\* line 48: the with block is left, normally or by the exception
ExitWith ==
    /\ pc = "with_exit"
    /\ openFiles' = CloseOnExit(openFiles, exc)
    /\ IF exc = "none"
       THEN /\ pc' = "build"
            /\ err' = err
       ELSE /\ pc' = Unhandled(exc)
            /\ err' = exc
    /\ UNCHANGED <<shuffle, inFile, dataset, anns, imgs, cats, imgToAnns,
                   record, images, i, img, openCalls, imgData, finalData,
                   exc>>

\* lines 50-66: the numeric field of the record
BuildRecord ==
    /\ pc = "build"
    /\ LET imgID == img.id
           group == DefaultGet(imgToAnns, imgID)
       IN /\ imgToAnns' = DefaultTouch(imgToAnns, imgID)
          /\ IF LookupFails(group, cats)
             THEN /\ finalData' = finalData
                  /\ pc' = Unhandled("KeyError:category_id")
                  /\ err' = "KeyError:category_id"
             ELSE /\ finalData' = FinalData(img, Labels(group, cats),
                                            MergeBboxes(Bboxes(group)))
                  /\ pc' = "write"
                  /\ err' = err
    /\ UNCHANGED <<shuffle, inFile, dataset, anns, imgs, cats, record,
                   images, i, img, openFiles, openCalls, imgData, exc>>

\* line 70: the key the record of iteration k is written under
IndexKeyConst(k) == 0
IndexKey(k) == k

\* lines 68-72: header, pack, write_idx; then enumerate() advances
WriteRecord ==
    /\ pc = "write"
    /\ record' = write_idx(record, IndexKey(i), pack(Header(finalData, i), imgData))
    /\ i' = i + 1
    /\ pc' = "loop"
    /\ UNCHANGED <<shuffle, inFile, dataset, anns, imgs, cats, imgToAnns,
                   images, img, openFiles, openCalls, imgData, finalData,
                   exc, err>>

\* line 46: the list is exhausted, the script ends
Finish ==
    /\ pc = "loop"
    /\ ~LoopHasNext(i, images)
    /\ pc' = "done"
    /\ UNCHANGED <<shuffle, inFile, dataset, anns, imgs, cats, imgToAnns,
                   record, images, i, img, openFiles, openCalls, imgData,
                   finalData, exc, err>>

Next ==
    \/ LoadJson
    \/ BuildIndexes
    \/ OpenRecord
    \/ TakeImages
    \/ OpenImage
    \/ ReadImage
    \/ ExitWith
    \/ BuildRecord
    \/ WriteRecord
    \/ Finish

Spec == Init /\ [][Next]_vars

TypeOK ==
    /\ pc \in {"load", "index", "open_record", "take_images", "loop", "read",
               "with_exit", "build", "write", "done", "aborted"}
    /\ i \in 0..Len(images)
    /\ shuffle \in BOOLEAN
    /\ record.opened \in BOOLEAN

\* ============================================================ properties
\* The input as the annotation file holds it (never changed by the run).
In(key) == IF key \in DOMAIN inFile.content THEN inFile.content[key] ELSE <<>>
Has(key) == inFile.status = "ok" /\ key \in DOMAIN inFile.content

InCatIds == { In("categories")[j].id : j \in 1..Len(In("categories")) }
InImgIds == { In("images")[j].id : j \in 1..Len(In("images")) }

\* the annotations of the input whose image_id is that of image, in list order
MatchingAnns(image) ==
    LET OfImage(a) == a.image_id = image.id
    IN SelectSeq(In("annotations"), OfImage)

\* some annotation of image has a category_id the categories list lacks
ImageBad(image) ==
    \E j \in 1..Len(In("annotations")) :
        /\ In("annotations")[j].image_id = image.id
        /\ In("annotations")[j].category_id \notin InCatIds

LabelOf(cid) == IF cid \in DOMAIN cats THEN cats[cid] ELSE 0

\* [image_id, width, height], k labels, k bboxes of four numbers each
ExpectedField(image) ==
    LET M == MatchingAnns(image)
        k == Len(M)
    IN [n \in 1..(3 + k + 4 * k) |->
          IF n = 1 THEN image.id
          ELSE IF n = 2 THEN image.width
          ELSE IF n = 3 THEN image.height
          ELSE IF n <= 3 + k THEN LabelOf(M[n - 3].category_id)
          ELSE M[((n - 4 - k) \div 4) + 1].bbox[((n - 4 - k) % 4) + 1]]

\* what is written with a record apart from its position
ExpectedContent(image) ==
    <<ExpectedField(image), FileContent(image.file_name)>>

ContentOf(entry) == <<entry.s.header.label, entry.s.data>>

\* the entry a run without failure writes for position p (1-based) of list
ExpectedEntry(list, p) ==
    [key |-> p - 1,
     s |-> [header |-> [flag |-> 0, label |-> ExpectedField(list[p]),
                        id |-> p - 1, id2 |-> 0],
            data |-> FileContent(list[p].file_name)]]

Written == record.entries

\* C1: for an input that parses, has an images list and has a known category
\* for every annotation of a listed image, a run that ends without an image
\* file failing has written exactly as many index entries as the images list
\* is long; such a run ends aborted only by an image file failure.
C1_IndexCountEqualsImages ==
    /\ pc = "done" => Len(Written) = Len(In("images"))
    /\ ( /\ pc = "aborted"
         /\ Has("images")
         /\ \A j \in 1..Len(In("images")) : ~ImageBad(In("images")[j]) )
       => err \in {"OSError:open", "OSError:read"}

C1_Witness ==
    /\ pc = "done"
    /\ Len(In("images")) = 2
    /\ In("images")[1].id = In("images")[2].id
    /\ Len(Written) = 2

\* C2: the numeric field of every written record is [image_id, width, height]
\* followed by the k labels and the k flattened bboxes of the k annotations
\* of the input whose image_id is the image's id, both in annotation-list
\* order; with k = 0 it is [image_id, width, height].
C2_RecordField ==
    \A p \in 1..Len(Written) :
        LET field == Written[p].s.header.label
            M == MatchingAnns(images[p])
            k == Len(M)
        IN /\ Len(field) = 3 + k + 4 * k
           /\ field[1] = images[p].id
           /\ field[2] = images[p].width
           /\ field[3] = images[p].height
           /\ \A j \in 1..k :
                /\ M[j].category_id \in DOMAIN cats
                /\ field[3 + j] = cats[M[j].category_id]
                /\ \A t \in 1..4 :
                     field[3 + k + 4 * (j - 1) + t] = M[j].bbox[t]
           /\ k = 0 => field = <<images[p].id, images[p].width, images[p].height>>

C2_Witness ==
    \E p, q \in 1..Len(Written) :
        /\ Len(Written[p].s.header.label) = 13
        /\ Written[p].s.header.label[4] # Written[p].s.header.label[5]
        /\ Len(Written[q].s.header.label) = 3

\* the number of distinct ids among the first j categories
RankAt(j) == Cardinality({ In("categories")[m].id : m \in 1..j })
FirstPos(cid) ==
    CHOOSE j \in 1..Len(In("categories")) :
        /\ In("categories")[j].id = cid
        /\ \A m \in 1..(j - 1) : In("categories")[m].id # cid
LastPos(cid) ==
    CHOOSE j \in 1..Len(In("categories")) :
        /\ In("categories")[j].id = cid
        /\ \A m \in (j + 1)..Len(In("categories")) : In("categories")[m].id # cid
NoRepeatedCat ==
    \A a, b \in 1..Len(In("categories")) :
        In("categories")[a].id = In("categories")[b].id => a = b
Indexed == pc \notin {"load", "index"} /\ inFile.status = "ok"

\* C3 as stated: for every categories list, repeated ids included, the remap
\* is a bijection from the K distinct ids onto 1..K, each id receiving the
\* rank of its first appearance.
C3_RemapFirstSeenRank ==
    Indexed =>
        /\ DOMAIN cats = InCatIds
        /\ { cats[c] : c \in DOMAIN cats } = 1..Cardinality(InCatIds)
        /\ \A c \in DOMAIN cats : cats[c] = RankAt(FirstPos(c))

\* C3 amended: the remap gives each of the K distinct ids the 1-based list
\* position of its last appearance, so it is injective into 1..N for a list
\* of N categories; when no id is repeated it is a bijection onto 1..K and
\* each id has the rank of its first appearance.
C3_RemapLastPosition ==
    Indexed =>
        /\ DOMAIN cats = InCatIds
        /\ \A c \in DOMAIN cats : cats[c] = LastPos(c)
        /\ \A c, d \in DOMAIN cats : cats[c] = cats[d] => c = d
        /\ NoRepeatedCat =>
             /\ { cats[c] : c \in DOMAIN cats } = 1..Cardinality(InCatIds)
             /\ \A c \in DOMAIN cats : cats[c] = RankAt(FirstPos(c))

C3_Witness ==
    /\ Indexed
    /\ NoRepeatedCat
    /\ Len(In("categories")) = 2
    /\ { cats[c] : c \in DOMAIN cats } = {1, 2}

\* the number of positions of list whose content is c
CountWritten(c) == Cardinality({ p \in 1..Len(Written) : ContentOf(Written[p]) = c })
CountInput(c) ==
    Cardinality({ p \in 1..Len(In("images")) : ExpectedContent(In("images")[p]) = c })

\* C4: without shuffling the record under key i is built from element i of
\* the input images list; with shuffling the list enumerated is a
\* permutation of the input list and a completed run has written the same
\* multiset of record contents (numeric field and image bytes) as the
\* unshuffled run writes.
C4_OrderAndPermutation ==
    /\ ~shuffle =>
         \A p \in 1..Len(Written) :
            /\ Written[p].key = p - 1
            /\ ContentOf(Written[p]) = ExpectedContent(In("images")[p])
    /\ pc \in {"loop", "read", "with_exit", "build", "write", "done"} =>
         /\ Len(images) = Len(In("images"))
         /\ \A x \in ImageUniverse :
              Cardinality({ p \in 1..Len(images) : images[p] = x })
                = Cardinality({ p \in 1..Len(In("images")) : In("images")[p] = x })
    /\ pc = "done" =>
         \A p \in 1..Len(In("images")) :
            CountWritten(ExpectedContent(In("images")[p]))
              = CountInput(ExpectedContent(In("images")[p]))

C4_Witness ==
    /\ shuffle
    /\ pc = "done"
    /\ Len(Written) = 2
    /\ images # In("images")
    /\ ContentOf(Written[1]) = ExpectedContent(In("images")[2])

\* C5: when an image file cannot be opened or read at output position i the
\* run is aborted there: the container holds exactly the entries for keys
\* 0..i-1, each the one a run without failure writes, no later image file
\* was opened, and nothing happens afterwards.
C5_ImageFailureLeavesPrefix ==
    err \in {"OSError:open", "OSError:read"} =>
        /\ pc = "aborted"
        /\ ~ENABLED Next
        /\ Len(Written) = i
        /\ \A p \in 1..i : Written[p] = ExpectedEntry(images, p)
        /\ openCalls = i + 1

C5_Witness ==
    /\ pc = "aborted"
    /\ err = "OSError:open"
    /\ i = 1
    /\ Len(Written) = 1
    /\ Len(images) = 2

\* C6 as stated: a parsed JSON that lacks 'images', 'annotations' or
\* 'categories' is processed as if the key held an empty list; without
\* 'images' the run completes with zero records.
C6_AbsentKeyIsEmptyList ==
    inFile.status = "ok" =>
        /\ ~Has("images") => pc # "aborted" /\ Written = <<>>
        /\ (~Has("annotations") /\ Indexed) =>
              \A x \in DOMAIN imgToAnns : imgToAnns[x] = <<>>
        /\ (~Has("categories") /\ Indexed) => cats = EmptyDict

\* C7: when the annotation file is missing or malformed the container is
\* never opened and no record is written: the run aborts at the parse.
C7_ParseFailureBeforeOutput ==
    inFile.status # "ok" =>
        /\ ~record.opened
        /\ Written = <<>>
        /\ pc \in {"load", "aborted"}
        /\ pc = "aborted" => err \in {"FileNotFoundError", "JSONDecodeError"}

C7_Witness ==
    /\ inFile.status = "malformed"
    /\ pc = "aborted"
    /\ err = "JSONDecodeError"
    /\ ~record.opened

\* C8: an annotation with a category_id the categories list lacks aborts the
\* run at the first image in output order that has its image_id, before that
\* image's record is written and with entries 0..i-1 in place; an annotation
\* whose image_id is no image's id is in no record and causes no failure.
C8_UnknownCategory ==
    /\ \A p \in 1..Len(Written) : ~ImageBad(images[p])
    /\ err = "KeyError:category_id" =>
         /\ pc = "aborted"
         /\ i < Len(images)
         /\ ImageBad(images[i + 1])
         /\ \A p \in 1..i : ~ImageBad(images[p])
         /\ Len(Written) = i
         /\ \A p \in 1..i : Written[p] = ExpectedEntry(images, p)
    /\ pc = "write" => ~ImageBad(img)
    /\ \A p \in 1..Len(Written) :
         Written[p].s.header.label = ExpectedField(images[p])
    /\ (\A p \in 1..Len(In("images")) : ~ImageBad(In("images")[p]))
         => err # "KeyError:category_id"

C8_Witness ==
    /\ pc = "aborted"
    /\ err = "KeyError:category_id"
    /\ i = 1
    /\ Len(Written) = 1
    /\ \E j \in 1..Len(In("annotations")) :
         In("annotations")[j].image_id = images[2].id

\* C9: the record written as number i (from 0) has flags 0, record id i and
\* reserved 0 and is written under key i, so the keys written are always
\* exactly 0..m-1, in increasing order.
C9_SequentialKeys ==
    \A p \in 1..Len(Written) :
        /\ Written[p].key = p - 1
        /\ Written[p].s.header.flag = 0
        /\ Written[p].s.header.id = p - 1
        /\ Written[p].s.header.id2 = 0

C9_Witness ==
    /\ Len(Written) = 2
    /\ Written[2].key = 1
    /\ Written[2].s.header.id = 1

\* C10: at most one image file is open at any time; the file is open only
\* while it is being read and is closed before the record is built or
\* written, before the next file is opened and when the read fails.
C10_OneOpenImageFile ==
    /\ openFiles <= 1
    /\ pc \in {"read", "with_exit"} => openFiles = 1
    /\ pc \notin {"read", "with_exit"} => openFiles = 0

C10_Witness ==
    /\ pc = "aborted"
    /\ err = "OSError:read"
    /\ openFiles = 0
    /\ openCalls = 2

====
